---- MODULE Spec2Model ----
(***************************************************************************)
(* A model of bloatless-react's reactivity layer (src/index.ts): State,    *)
(* ListState, createProxyState and bindElementValue.                       *)
(*                                                                         *)
(* The library is single threaded and synchronous: a write, add, remove,   *)
(* subscribe or event dispatch runs its whole notification cascade before  *)
(* it returns.  Every action below is therefore one complete top-level     *)
(* call; the cascade is computed by the recursive operators SetValue,      *)
(* CallSubscriptions, Call, ... which follow the code statement by         *)
(* statement on a record m holding the heap.                               *)
(***************************************************************************)
EXTENDS Integers, Sequences, FiniteSets, TLC

VARIABLES
    value,             \* State._value of every cell
    bindings,          \* State._bindings of every cell (a JS Set: insertion ordered)
    items,             \* the Set held by the ListState (insertion ordered)
    additionHandlers,  \* ListState.additionHandlers (a JS Set)
    removalHandlers,   \* ListState.removalHandlers (a JS Map keyed by UUID)
    elementValue,      \* element.value of every DOM element
    listeners,         \* the "input" listeners of every DOM element
    proxy,             \* the closure of createProxyState: its sources and fn
    log,               \* the callback invocations of the last top-level call
    thrown,            \* the last top-level call ended with an exception
    subscribed,        \* per cell, the functions passed to subscribe, in order of first call
    children,          \* the child nodes of the element wired with subscribe:children
    rendered,          \* per item, how often the converter has rendered it
    evals,             \* how often the proxy's fn ran during the last top-level call
    uuidValue,         \* UUID.value of every UUID object constructed so far
    overwritten,       \* per UUID, the handler the latest registration replaced
    lastOp             \* the last top-level call, with what it saw on entry

vars == <<value, bindings, items, additionHandlers, removalHandlers,
          elementValue, listeners, proxy, log, thrown, subscribed,
          children, rendered, evals, uuidValue, overwritten, lastOp>>

(***************************************************************************)
(* Bounds of the model.                                                    *)
(***************************************************************************)
\* numbers (and numerals) range over 0..MaxVal
MaxVal == 2
\* functions the program subscribes to one cell, or registers as addition handlers
MaxSubs == 2
\* nested callback frames before the engine's call stack overflows (RangeError)
MaxDepth == 4
\* items passed to one variadic add or remove
MaxArgs == 2
\* how many Set objects a ListState is given after the one it constructs
MaxSets == 2
\* how often the converter renders one item
MaxRenders == 2

(***************************************************************************)
(* Values.  A JavaScript number n is <<"number", n>>; the string holding   *)
(* the decimal numeral of n is <<"string", n>>.                            *)
(***************************************************************************)
Num(n) == <<"number", n>>
Str(n) == <<"string", n>>
Undefined == <<"undefined", 0>>

\* the empty string ""
EmptyString == <<"string", -1>>

Numbers == {Num(n) : n \in 0..MaxVal}
Strings == {Str(n) : n \in 0..MaxVal} \cup {EmptyString}

\* ToNumber of a number or of a string: a numeral gives its number, "" gives 0
ToNumber(v) == IF v = EmptyString THEN 0 ELSE v[2]

\* `this._value == newValue`: loose equality.  Operands of the same type are
\* compared strictly; a number and a string are compared after ToNumber.
LooseEq(x, y) ==
    IF x[1] = y[1] THEN x = y
    ELSE IF {x[1], y[1]} = {"number", "string"} THEN ToNumber(x) = ToNumber(y)
    ELSE FALSE

\* the k-th Set object: == on objects is identity
SetObj(k) == <<"set", k>>

\* the DOM stores String(v) in an element's value property
ToDOMString(v) == IF v[1] = "string" THEN v ELSE Str(v[2])

(***************************************************************************)
(* Callbacks.  A record stands for one function object; what it does when  *)
(* called is decided by its kind (see Call).                               *)
(***************************************************************************)
Cb(kind, id, target, val, src) ==
    [kind |-> kind, id |-> id, target |-> target, val |-> val, src |-> src]

\* no function (Map.get of a missing key)
NoCb == Cb("none", 0, "", Undefined, "")
\* fn = (v) => console.log(v)
LogCb(id) == Cb("log", id, "", Undefined, "")
\* fn = (v) => { target.value = val }
WriteCb(target, val) == Cb("write", 0, target, val, "")
\* () => (proxyState.value = fn()), the listener createProxyState subscribes to
\* its k-th source src (a new closure for every element of the array)
ProxyCb(src, k) == Cb("proxy", k, "d", Undefined, src)
\* (newValue) => { element.value = state.value }, subscribed by the k-th call
\* of bindElementValue(el, state)
BindCb(el, state, k) == Cb("bind", k, el, Undefined, state)
\* () => { state.value = element.value }, the "input" listener added by that call
InputCb(el, state, k) == Cb("input", k, el, Undefined, state)
\* (item) => { listState.remove(item) }
RemoveCb(id) == Cb("remove", id, "", Undefined, "")
\* (item) => { listState.handleRemoval(item, (i) => console.log(i)) }
HandleRemovalCb(id) == Cb("handleRemoval", id, "", Undefined, "")
\* the addition handler of subscribe:children: converts the new item and
\* appends the child
AppendChildCb == Cb("appendChild", 0, "", Undefined, "")
\* the removal handler of an item's n-th rendering: detaches that child
DetachCb(n) == Cb("detach", n, "", Undefined, "")
\* the child node the converter made on its n-th call for item
Child(item, n) == <<"child", item, n>>
\* (v) => { throw new Error() }
ThrowCb(id) == Cb("throw", id, "", Undefined, "")

(***************************************************************************)
(* Objects.                                                                *)
(***************************************************************************)
Cells == {"a", "b", "d", "l"}
Elements == {"e1", "e2"}

Item(n) == <<"item", n>>
Items == {Item(1), Item(2)}
\* item.uuid: every item holds its own UUID object, the key of removalHandlers
UuidOf(item) == <<"uuid", item[2]>>
\* the items of the child-list scenario: A, B and C
ChildItems == {Item(1), Item(2), Item(3)}
Uuids == {UuidOf(i) : i \in Items \cup ChildItems}

\* `v4`, the function imported from "uuid" (the function object, not a result)
V4 == <<"function", 4>>
\* new UUID(): constructor() { this.value = v4 }
NewUUID == V4
\* UUID.toString() { return this.value }
UuidToString(v) == v

NoProxy == [srcs |-> <<>>, fn |-> "none"]

\* JS Set.add on an insertion-ordered set: a member keeps its place
SetAdd(seq, x) == IF \E i \in 1..Len(seq) : seq[i] = x THEN seq ELSE Append(seq, x)
\* JS Set.delete
SetDelete(seq, x) == SelectSeq(seq, LAMBDA y : y # x)
SetHas(seq, x) == \E i \in 1..Len(seq) : seq[i] = x

RECURSIVE SumOver(_, _)
SumOver(val, srcs) ==
    IF srcs = <<>> THEN 0 ELSE ToNumber(val[Head(srcs)]) + SumOver(val, Tail(srcs))

RECURSIVE MaxOver(_, _)
MaxOver(val, srcs) ==
    IF srcs = <<>> THEN 0
    ELSE LET h == ToNumber(val[Head(srcs)])
             t == MaxOver(val, Tail(srcs))
         IN IF h > t THEN h ELSE t

\* fn(): the recompute function given to createProxyState, reading its sources
FnValue(p, val) ==
    IF p.fn = "sum" THEN Num(SumOver(val, p.srcs)) ELSE Num(MaxOver(val, p.srcs))

(***************************************************************************)
(* The heap as one record, and the synchronous cascade on it.  d counts    *)
(* the callback frames on the stack.                                       *)
(***************************************************************************)
Heap ==
    [value |-> value, bindings |-> bindings, items |-> items,
     additionHandlers |-> additionHandlers, removalHandlers |-> removalHandlers,
     elementValue |-> elementValue, listeners |-> listeners, proxy |-> proxy,
     children |-> children, rendered |-> rendered,
     log |-> <<>>, thrown |-> FALSE, evals |-> 0]

Entry(m, fn, arg, d) ==
    [fn |-> fn, arg |-> arg, depth |-> d, mem |-> SetHas(m.items, arg)]

RECURSIVE SetValue(_, _, _, _)
RECURSIVE ForEachBinding(_, _, _, _)
RECURSIVE Call(_, _, _, _)
RECURSIVE ForEachAddition(_, _, _, _)
RECURSIVE AddItems(_, _, _, _)
RECURSIVE RemoveItems(_, _, _, _)

\* callSubscriptions(): this._bindings.forEach((fn) => fn(this._value))
CallSubscriptions(m, c, d) == ForEachBinding(m, c, 1, d)

ForEachBindingReversed(m, c, i, d) ==
    LET n == Len(m.bindings[c])
        RECURSIVE Go(_, _)
        Go(mm, j) == IF mm.thrown \/ j < 1 THEN mm
                     ELSE Go(Call(mm, mm.bindings[c][j], mm.value[c], d), j - 1)
    IN IF i > n THEN m ELSE Go(m, n)

ForEachBindingCatching(m, c, i, d) ==
    LET RECURSIVE Go(_, _)
        Go(mm, j) ==
            IF j > Len(mm.bindings[c]) THEN mm
            ELSE LET r == Call([mm EXCEPT !.thrown = FALSE], mm.bindings[c][j],
                               mm.value[c], d)
                 IN Go([r EXCEPT !.thrown = mm.thrown \/ r.thrown], j + 1)
    IN IF m.thrown THEN m ELSE Go(m, i)

\* one step of the forEach: the Set is read live, and so is this._value
ForEachBinding(m, c, i, d) ==
    IF m.thrown \/ i > Len(m.bindings[c]) THEN m
    ELSE ForEachBinding(Call(m, m.bindings[c][i], m.value[c], d), c, i + 1, d)

SetValueNoGuard(m, c, newValue, d) ==
    CallSubscriptions([m EXCEPT !.value[c] = newValue], c, d)

SetValueGuardInverted(m, c, newValue, d) ==
    IF ~LooseEq(m.value[c], newValue) THEN m
    ELSE CallSubscriptions([m EXCEPT !.value[c] = newValue], c, d)

\* set value(newValue)
SetValue(m, c, newValue, d) ==
    IF LooseEq(m.value[c], newValue) THEN m
    ELSE CallSubscriptions([m EXCEPT !.value[c] = newValue], c, d)

\* handleRemoval(item, handler): Map.set
HandleRemoval(m, item, handler) ==
    [m EXCEPT !.removalHandlers[UuidOf(item)] = handler]

\* convert(item, listState), append the child, and let the item's removal
\* detach this child
RenderChild(m, item) ==
    LET n == m.rendered[item] + 1
    IN [m EXCEPT !.rendered[item] = n,
                 !.children = Append(@, Child(item, n)),
                 !.removalHandlers[UuidOf(item)] = DetachCb(n)]

\* handleAddition(handler): Set.add
HandleAddition(m, handler) ==
    [m EXCEPT !.additionHandlers = SetAdd(@, handler)]

\* calling the function object fn with arg
Call(m, fn, arg, d) ==
    IF d >= MaxDepth THEN [m EXCEPT !.thrown = TRUE]
    ELSE LET m1 == [m EXCEPT !.log = Append(@, Entry(m, fn, arg, d))]
         IN CASE fn.kind = "log" -> m1
              [] fn.kind = "write" -> SetValue(m1, fn.target, fn.val, d + 1)
              [] fn.kind = "proxy" ->
                    SetValue([m1 EXCEPT !.evals = @ + 1], fn.target,
                             FnValue(m1.proxy, m1.value), d + 1)
              [] fn.kind = "bind" ->
                    [m1 EXCEPT !.elementValue[fn.target] = ToDOMString(m1.value[fn.src])]
              [] fn.kind = "input" ->
                    SetValue(m1, fn.src, m1.elementValue[fn.target], d + 1)
              [] fn.kind = "remove" -> RemoveItems(m1, <<arg>>, 1, d + 1)
              [] fn.kind = "handleRemoval" -> HandleRemoval(m1, arg, LogCb(fn.id))
              [] fn.kind = "throw" -> [m1 EXCEPT !.thrown = TRUE]
              [] fn.kind = "appendChild" -> RenderChild(m1, arg)
              [] fn.kind = "detach" ->
                    [m1 EXCEPT !.children =
                         SelectSeq(@, LAMBDA ch : ch # Child(arg, fn.id))]
              [] OTHER -> [m1 EXCEPT !.thrown = TRUE]

SubscribeNoReplay(m, c, fn, d) ==
    [m EXCEPT !.bindings[c] = SetAdd(@, fn)]

SubscribeReplacing(m, c, fn, d) ==
    Call([m EXCEPT !.bindings[c] = <<fn>>], fn, m.value[c], d)

\* subscribe(fn)
SubscribeFn(m, c, fn, d) ==
    LET m1 == [m EXCEPT !.bindings[c] = SetAdd(@, fn)]
    IN Call(m1, fn, m1.value[c], d)

\* the inner forEach of add: this.additionHandlers.forEach((handler) => handler(item))
ForEachAddition(m, item, i, d) ==
    IF m.thrown \/ i > Len(m.additionHandlers) THEN m
    ELSE ForEachAddition(Call(m, m.additionHandlers[i], item, d), item, i + 1, d)

AddItemsHandlersFirst(m, its, k, d) ==
    IF m.thrown \/ k > Len(its) THEN m
    ELSE LET m1 == ForEachAddition(m, its[k], 1, d)
         IN AddItems([m1 EXCEPT !.items = SetAdd(@, its[k])], its, k + 1, d)

AddItemsSkipMembers(m, its, k, d) ==
    IF m.thrown \/ k > Len(its) THEN m
    ELSE IF SetHas(m.items, its[k]) THEN AddItems(m, its, k + 1, d)
    ELSE LET m1 == [m EXCEPT !.items = SetAdd(@, its[k])]
         IN AddItems(ForEachAddition(m1, its[k], 1, d), its, k + 1, d)

AddItemsSilent(m, its, k, d) ==
    IF m.thrown \/ k > Len(its) THEN m
    ELSE AddItems([m EXCEPT !.items = SetAdd(@, its[k])], its, k + 1, d)

AddItemsNotifying(m, its, k, d) ==
    IF m.thrown \/ k > Len(its) THEN m
    ELSE LET m1 == [m EXCEPT !.items = SetAdd(@, its[k])]
             m2 == CallSubscriptions(m1, "l", d)
         IN AddItems(ForEachAddition(m2, its[k], 1, d), its, k + 1, d)

\* add(...items), from the k-th item on
AddItems(m, its, k, d) ==
    IF m.thrown \/ k > Len(its) THEN m
    ELSE LET m1 == [m EXCEPT !.items = SetAdd(@, its[k])]
         IN AddItems(ForEachAddition(m1, its[k], 1, d), its, k + 1, d)

RemoveItemsDeleteFirst(m, its, k, d) ==
    IF m.thrown \/ k > Len(its) THEN m
    ELSE LET item == its[k]
             uuid == UuidOf(item)
             handler == m.removalHandlers[uuid]
             m1 == [m EXCEPT !.items = SetDelete(@, item),
                             !.removalHandlers[uuid] = NoCb]
         IN IF handler = NoCb THEN RemoveItems(m1, its, k + 1, d)
            ELSE RemoveItems(Call(m1, handler, item, d), its, k + 1, d)

\* remove(...items), from the k-th item on
RemoveItems(m, its, k, d) ==
    IF m.thrown \/ k > Len(its) THEN m
    ELSE LET item == its[k]
             m1 == [m EXCEPT !.items = SetDelete(@, item)]
             uuid == UuidOf(item)
         IN IF m1.removalHandlers[uuid] = NoCb
            THEN RemoveItems(m1, its, k + 1, d)
            ELSE LET m2 == Call(m1, m1.removalHandlers[uuid], item, d)
                 IN IF m2.thrown THEN m2
                    ELSE RemoveItems([m2 EXCEPT !.removalHandlers[uuid] = NoCb],
                                     its, k + 1, d)

RECURSIVE SubscribeSources(_, _, _, _)
\* statesToSubscibe.forEach((state) => state.subscribe(() => (proxyState.value = fn())))
SubscribeSources(m, srcs, k, d) ==
    IF m.thrown \/ k > Len(srcs) THEN m
    ELSE SubscribeSources(SubscribeFn(m, srcs[k], ProxyCb(srcs[k], k), d), srcs, k + 1, d)

CreateProxyFirstSourceOnly(m, srcs, f, d) ==
    LET p == [srcs |-> srcs, fn |-> f]
        m1 == [m EXCEPT !.proxy = p, !.value["d"] = FnValue(p, m.value),
                        !.evals = @ + 1]
    IN SubscribeSources(m1, <<srcs[1]>>, 1, d)

\* createProxyState(statesToSubscibe, fn): the proxy is the cell d
CreateProxy(m, srcs, f, d) ==
    LET p == [srcs |-> srcs, fn |-> f]
        m1 == [m EXCEPT !.proxy = p, !.value["d"] = FnValue(p, m.value),
                        !.evals = @ + 1]
    IN SubscribeSources(m1, srcs, 1, d)

RECURSIVE RenderAll(_, _, _)
\* the children of the items already in the list, in the Set's order
RenderAll(m, its, k) ==
    IF k > Len(its) THEN m
    ELSE RenderAll(RenderChild(m, its[k]), its, k + 1)

\* subscribe:children = [listState, convertItem]
SubscribeChildren(m) ==
    HandleAddition(RenderAll(m, m.items, 1), AppendChildCb)

BindElementOneWay(m, el, c, d) ==
    SubscribeFn(m, c, BindCb(el, c, Len(m.listeners[el]) + 1), d)

\* bindElementValue(element, state): subscribe, then addEventListener("input", ...)
BindElement(m, el, c, d) ==
    LET k == Len(m.listeners[el]) + 1
        m1 == SubscribeFn(m, c, BindCb(el, c, k), d)
    IN IF m1.thrown THEN m1
       ELSE [m1 EXCEPT !.listeners[el] = Append(@, InputCb(el, c, k))]

RECURSIVE DispatchFrom(_, _, _, _)
\* the host delivers an "input" event to el: its listeners run in order
DispatchFrom(m, el, i, d) ==
    IF m.thrown \/ i > Len(m.listeners[el]) THEN m
    ELSE DispatchFrom(Call(m, m.listeners[el][i], Undefined, d), el, i + 1, d)

(***************************************************************************)
(* Top-level calls.  Commit(m) stores the heap a call leaves behind.       *)
(***************************************************************************)
Commit(m) ==
    /\ value' = m.value
    /\ bindings' = m.bindings
    /\ items' = m.items
    /\ additionHandlers' = m.additionHandlers
    /\ removalHandlers' = m.removalHandlers
    /\ elementValue' = m.elementValue
    /\ listeners' = m.listeners
    /\ proxy' = m.proxy
    /\ log' = m.log
    /\ thrown' = m.thrown
    /\ evals' = m.evals
    /\ children' = m.children
    /\ rendered' = m.rendered

Op(op, target, arg, fn, args) ==
    [op |-> op, target |-> target, arg |-> arg, fn |-> fn, args |-> args,
     preValue |-> value, preItems |-> items, preRemoval |-> removalHandlers,
     preAddition |-> additionHandlers, preElement |-> elementValue,
     preChildren |-> children, preRendered |-> rendered]

NoOp == [op |-> "new", target |-> "", arg |-> Undefined, fn |-> NoCb, args |-> <<>>,
         preValue |-> [c \in Cells |-> Undefined], preItems |-> <<>>,
         preRemoval |-> [u \in Uuids |-> NoCb], preAddition |-> <<>>,
         preElement |-> [e \in Elements |-> EmptyString],
         preChildren |-> <<>>, preRendered |-> [i \in ChildItems |-> 0]]

InitCommon ==
    /\ bindings = [c \in Cells |-> <<>>]
    /\ items = <<>>
    /\ additionHandlers = <<>>
    /\ removalHandlers = [u \in Uuids |-> NoCb]
    /\ elementValue = [e \in Elements |-> EmptyString]
    /\ listeners = [e \in Elements |-> <<>>]
    /\ proxy = NoProxy
    /\ log = <<>>
    /\ thrown = FALSE
    /\ evals = 0
    /\ children = <<>>
    /\ rendered = [i \in ChildItems |-> 0]
    /\ subscribed = [c \in Cells |-> <<>>]
    /\ lastOp = NoOp

\* the items of the program exist, each with its UUID, and no removal handler
\* has been replaced yet
InitAux ==
    /\ uuidValue = [u \in Uuids |-> NewUUID]
    /\ overwritten = [u \in Uuids |-> NoCb]

Aux == <<uuidValue, overwritten>>

(***************************************************************************)
(* State: two cells a and b of type State<number | string>, written and    *)
(* subscribed to by the program.                                           *)
(***************************************************************************)
StateCells == {"a", "b"}
StateValues == Numbers \cup {Str(1)}
StateCallbacks == {LogCb(1), LogCb(2), WriteCb("a", Num(2)), WriteCb("b", Num(1))}

\* new State(0) twice; every other value is one write away
InitState ==
    /\ value = [c \in Cells |-> IF c \in StateCells THEN Num(0) ELSE Undefined]
    /\ InitCommon
    /\ InitAux

\* the history of subscribe calls: fn is appended the first time it is passed
Registered(c, fn) ==
    IF \E i \in 1..Len(subscribed[c]) : subscribed[c][i] = fn THEN subscribed
    ELSE [subscribed EXCEPT ![c] = Append(@, fn)]

\* c.value = x
Write(c, x) ==
    /\ Commit(SetValue(Heap, c, x, 0))
    /\ UNCHANGED subscribed
    /\ lastOp' = Op("write", c, x, NoCb, <<>>)

\* c.subscribe(fn)
Subscribe(c, fn) ==
    /\ SetHas(bindings[c], fn) \/ Len(bindings[c]) < MaxSubs
    /\ Commit(SubscribeFn(Heap, c, fn, 0))
    /\ subscribed' = Registered(c, fn)
    /\ lastOp' = Op("subscribe", c, value[c], fn, <<>>)

NextState ==
    \/ \E c \in StateCells, x \in StateValues : Write(c, x) /\ UNCHANGED Aux
    \/ \E c \in StateCells, fn \in StateCallbacks : Subscribe(c, fn) /\ UNCHANGED Aux

SpecState == InitState /\ [][NextState]_vars

(***************************************************************************)
(* State with subscribers that throw: the cell a, subscribers that log and *)
(* subscribers that throw an Error when they are invoked.                  *)
(***************************************************************************)
ThrowCallbacks == {LogCb(1), LogCb(2), ThrowCb(3), ThrowCb(4)}

NextThrow ==
    \/ \E x \in StateValues : Write("a", x) /\ UNCHANGED Aux
    \/ \E fn \in ThrowCallbacks : Subscribe("a", fn) /\ UNCHANGED Aux

SpecThrow == InitState /\ [][NextThrow]_vars

(***************************************************************************)
(* ListState: one list of Identifiable items, with addition handlers and   *)
(* per-item removal handlers registered by the program.                    *)
(***************************************************************************)
\* the argument lists of a variadic call: 1..MaxArgs items, repeats allowed
ArgLists == UNION {[1..n -> Items] : n \in 1..MaxArgs}

\* (newItem) => console.log(newItem), and the README's handler that registers a
\* removal handler for the new item
AdditionCallbacks == {LogCb(1), HandleRemovalCb(2)}
\* removal callbacks: logging ones, one that removes its item again, and one
\* that registers a new removal handler for its item
RemovalCallbacks == {LogCb(1), LogCb(3), RemoveCb(4), HandleRemovalCb(5)}

\* new ListState()
InitList ==
    /\ value = [c \in Cells |-> Undefined]
    /\ InitCommon
    /\ InitAux

\* listState.add(...its)
Add(its) ==
    /\ Commit(AddItems(Heap, its, 1, 0))
    /\ UNCHANGED subscribed
    /\ lastOp' = Op("add", "", Undefined, NoCb, its)

\* listState.remove(...its)
Remove(its) ==
    /\ Commit(RemoveItems(Heap, its, 1, 0))
    /\ UNCHANGED subscribed
    /\ lastOp' = Op("remove", "", Undefined, NoCb, its)

\* listState.handleAddition(handler)
HandleAdditionOp(handler) ==
    /\ SetHas(additionHandlers, handler) \/ Len(additionHandlers) < MaxSubs
    /\ Commit(HandleAddition(Heap, handler))
    /\ UNCHANGED subscribed
    /\ lastOp' = Op("handleAddition", "", Undefined, handler, <<>>)

\* listState.handleRemoval(item, handler)
HandleRemovalOp(item, handler) ==
    /\ Commit(HandleRemoval(Heap, item, handler))
    /\ UNCHANGED subscribed
    /\ lastOp' = Op("handleRemoval", "", item, handler, <<>>)

NextList ==
    \/ \E its \in ArgLists : Add(its) /\ UNCHANGED Aux
    \/ \E its \in ArgLists : Remove(its) /\ UNCHANGED Aux
    \/ \E h \in AdditionCallbacks : HandleAdditionOp(h) /\ UNCHANGED Aux
    \/ \E i \in Items, h \in RemovalCallbacks : HandleRemovalOp(i, h) /\ UNCHANGED Aux

SpecList == InitList /\ [][NextList]_vars

(***************************************************************************)
(* ListState as a State: the list is the cell l, whose value is the Set    *)
(* object that holds the items.  Besides the list operations the program   *)
(* subscribes to l and assigns l.value, either the Set it already holds or *)
(* a new empty one.                                                        *)
(***************************************************************************)
\* the subscribers of l, the addition handlers and the removal handlers
ListSubscribers == {LogCb(6), LogCb(7)}
ListAdditionHandlers == {LogCb(1), LogCb(2)}
ListRemovalHandlers == {LogCb(3)}

\* new ListState(): super(new Set())
InitListCell ==
    /\ value = [c \in Cells |-> IF c = "l" THEN SetObj(0) ELSE Undefined]
    /\ InitCommon
    /\ InitAux

\* l.value = new Set(): the items are from now on those of the new object
ReplaceSet ==
    /\ value["l"][2] < MaxSets
    /\ Commit(SetValue([Heap EXCEPT !.items = <<>>], "l", SetObj(value["l"][2] + 1), 0))
    /\ UNCHANGED subscribed
    /\ lastOp' = Op("write", "l", SetObj(value["l"][2] + 1), NoCb, <<>>)

NextListCell ==
    \/ \E fn \in ListSubscribers : Subscribe("l", fn) /\ UNCHANGED Aux
    \/ ReplaceSet /\ UNCHANGED Aux
    \/ Write("l", value["l"]) /\ UNCHANGED Aux
    \/ \E its \in ArgLists : Add(its) /\ UNCHANGED Aux
    \/ \E its \in ArgLists : Remove(its) /\ UNCHANGED Aux
    \/ \E h \in ListAdditionHandlers : HandleAdditionOp(h) /\ UNCHANGED Aux
    \/ \E i \in Items, h \in ListRemovalHandlers : HandleRemovalOp(i, h) /\ UNCHANGED Aux

SpecListCell == InitListCell /\ [][NextListCell]_vars

(***************************************************************************)
(* Child list: an element is wired to the list with subscribe:children.    *)
(* The program adds items that are not in the list (new ones, or ones it   *)
(* removed before) and removes any item, before and after the wiring.      *)
(***************************************************************************)
Wired == SetHas(additionHandlers, AppendChildCb)

\* <div subscribe:children={[listState, convertItem]}></div>
SubscribeChildrenOp ==
    /\ ~Wired
    /\ Commit(SubscribeChildren(Heap))
    /\ UNCHANGED subscribed
    /\ lastOp' = Op("subscribe:children", "", Undefined, NoCb, <<>>)

NextChildren ==
    \/ SubscribeChildrenOp /\ UNCHANGED Aux
    \/ \E i \in ChildItems :
           /\ ~SetHas(items, i)
           /\ rendered[i] < MaxRenders
           /\ Add(<<i>>)
           /\ UNCHANGED Aux
    \/ \E i \in ChildItems : Remove(<<i>>) /\ UNCHANGED Aux

SpecChildren == InitList /\ [][NextChildren]_vars

(***************************************************************************)
(* Items: the program constructs its Identifiable items (each with a new   *)
(* UUID) before it uses them with the list.  overwritten records, for the  *)
(* claims, which handler a registration replaced.                          *)
(***************************************************************************)
Created(item) == uuidValue[UuidOf(item)] # Undefined
AllCreated(its) == \A k \in 1..Len(its) : Created(its[k])

\* the handler that the latest change of the registration for u put aside
Tracked ==
    [u \in Uuids |->
        IF removalHandlers'[u] # removalHandlers[u] /\ removalHandlers'[u] # NoCb
        THEN removalHandlers[u]
        ELSE overwritten[u]]

\* the removal handlers the program registers: two that log, one that removes
ItemCallbacks == {LogCb(1), LogCb(3), RemoveCb(4)}

\* new ListState(); no item exists yet
InitItems ==
    /\ value = [c \in Cells |-> Undefined]
    /\ InitCommon
    /\ uuidValue = [u \in Uuids |-> Undefined]
    /\ overwritten = [u \in Uuids |-> NoCb]

\* const item = new Item(): uuid = new UUID()
CreateItem(item) ==
    /\ ~Created(item)
    /\ uuidValue' = [uuidValue EXCEPT ![UuidOf(item)] = NewUUID]
    /\ lastOp' = Op("new Item", "", item, NoCb, <<>>)
    /\ UNCHANGED <<value, bindings, items, additionHandlers, removalHandlers,
                   elementValue, listeners, proxy, log, thrown, evals,
                   children, rendered, subscribed, overwritten>>

NextItems ==
    \/ \E i \in Items : CreateItem(i)
    \/ \E its \in ArgLists :
           AllCreated(its) /\ Add(its) /\ overwritten' = Tracked /\ UNCHANGED uuidValue
    \/ \E its \in ArgLists :
           AllCreated(its) /\ Remove(its) /\ overwritten' = Tracked /\ UNCHANGED uuidValue
    \/ \E i \in Items, h \in ItemCallbacks :
           Created(i) /\ HandleRemovalOp(i, h) /\ overwritten' = Tracked
                      /\ UNCHANGED uuidValue

SpecItems == InitItems /\ [][NextItems]_vars

(***************************************************************************)
(* Proxy State: d = createProxyState(sources, fn) over the number cells a  *)
(* and b, with fn the sum or the maximum of its sources.                   *)
(***************************************************************************)
ProxySources == {<<"a", "b">>, <<"b", "a">>, <<"a">>}
ProxyFns == {"sum", "max"}
\* subscribers of d: console.log twice, and one that writes a source back
ProxyCallbacks == {LogCb(1), LogCb(2), WriteCb("a", Num(2))}
\* subscribers of the sources, beside the proxy's listeners
SourceCallbacks == {LogCb(1)}

RECURSIVE RegisteredAll(_, _, _)
RegisteredAll(reg, srcs, k) ==
    IF k > Len(srcs) THEN reg
    ELSE RegisteredAll([reg EXCEPT ![srcs[k]] = Append(@, ProxyCb(srcs[k], k))],
                       srcs, k + 1)

\* const a = new State(0), b = new State(0)
InitProxy ==
    /\ value = [c \in Cells |-> IF c \in StateCells THEN Num(0) ELSE Undefined]
    /\ InitCommon
    /\ InitAux

\* const d = createProxyState(srcs, fn)
CreateProxyState(srcs, f) ==
    /\ proxy = NoProxy
    /\ Commit(CreateProxy(Heap, srcs, f, 0))
    /\ subscribed' = RegisteredAll(subscribed, srcs, 1)
    /\ lastOp' = Op("createProxyState", "d", Undefined, NoCb, srcs)

NextProxy ==
    \/ \E srcs \in ProxySources, f \in ProxyFns : CreateProxyState(srcs, f) /\ UNCHANGED Aux
    \/ \E c \in StateCells, x \in Numbers : Write(c, x) /\ UNCHANGED Aux
    \/ \E c \in StateCells, fn \in SourceCallbacks : Subscribe(c, fn) /\ UNCHANGED Aux
    \/ \E fn \in ProxyCallbacks : proxy # NoProxy /\ Subscribe("d", fn) /\ UNCHANGED Aux

SpecProxy == InitProxy /\ [][NextProxy]_vars

(***************************************************************************)
(* Two-way binding: the cell a is a State<string> bound to input elements  *)
(* with bindElementValue.  An element's value changes through the binding  *)
(* or through the user, whose edit the host reports with an "input" event. *)
(***************************************************************************)
BindCallbacks == {LogCb(1)}

\* const a = new State(""); the elements are new and empty
InitBind ==
    /\ value = [c \in Cells |-> IF c = "a" THEN EmptyString ELSE Undefined]
    /\ InitCommon
    /\ InitAux

\* bindElementValue(el, a)
BindElementValue(el) ==
    /\ Len(listeners[el]) < MaxSubs
    /\ Commit(BindElement(Heap, el, "a", 0))
    /\ subscribed' = Registered("a", BindCb(el, "a", Len(listeners[el]) + 1))
    /\ lastOp' = Op("bindElementValue", el, Undefined, NoCb, <<>>)

\* the user types y into el: element.value becomes y and "input" is delivered
Input(el, y) ==
    /\ Commit(DispatchFrom([Heap EXCEPT !.elementValue[el] = y], el, 1, 0))
    /\ UNCHANGED subscribed
    /\ lastOp' = Op("input", el, y, NoCb, <<>>)

NextBind ==
    \/ \E el \in Elements : BindElementValue(el) /\ UNCHANGED Aux
    \/ \E el \in Elements, y \in Strings : Input(el, y) /\ UNCHANGED Aux
    \/ \E x \in Strings : Write("a", x) /\ UNCHANGED Aux
    \/ \E fn \in BindCallbacks : Subscribe("a", fn) /\ UNCHANGED Aux

SpecBind == InitBind /\ [][NextBind]_vars

(***************************************************************************)
(* Reading the log of a call.                                              *)
(***************************************************************************)
\* the invocations made by the top-level call itself (not by a callback)
TopEntries == SelectSeq(log, LAMBDA e : e.depth = 0)
TopFns == [i \in 1..Len(TopEntries) |-> TopEntries[i].fn]
\* how often the top-level call itself invoked fn
TopCount(fn) == Cardinality({i \in 1..Len(TopEntries) : TopEntries[i].fn = fn})
\* how often fn ran during the call, at any depth
Count(fn) == Cardinality({i \in 1..Len(log) : log[i].fn = fn})

WroteNewValue ==
    /\ lastOp.op = "write"
    /\ ~LooseEq(lastOp.preValue[lastOp.target], lastOp.arg)

(***************************************************************************)
(* C1.  A write of a value x that differs from the current value invokes   *)
(* every registered subscriber exactly once, and every invocation receives *)
(* x, whatever the subscribers do (they may write to cells themselves).    *)
(* Stated of the notification pass of the write itself, with "differs"     *)
(* read as the code's own inequality, and of subscribers that write to     *)
(* other cells only (none writes the cell it is subscribed to).            *)
(***************************************************************************)
WritersWriteOtherCells ==
    \A c \in Cells : \A i \in 1..Len(bindings[c]) :
        bindings[c][i].kind = "write" => bindings[c][i].target # c

C1_EachSubscriberOnceWithX ==
    (WroteNewValue /\ WritersWriteOtherCells) =>
        \A i \in 1..Len(bindings[lastOp.target]) :
            LET fn == bindings[lastOp.target][i]
            IN /\ TopCount(fn) = 1
               /\ \A k \in 1..Len(TopEntries) :
                      TopEntries[k].fn = fn => TopEntries[k].arg = lastOp.arg

(***************************************************************************)
(* C2.  Writing a value equal to the current value invokes no subscriber   *)
(* and leaves the stored value (of every cell) unchanged.                  *)
(***************************************************************************)
C2_EqualWriteIsNoOp ==
    (lastOp.op = "write" /\ lastOp.arg = lastOp.preValue[lastOp.target]) =>
        /\ log = <<>>
        /\ value = lastOp.preValue
        /\ ~thrown

C2_Witness ==
    /\ lastOp.op = "write"
    /\ lastOp.arg = lastOp.preValue[lastOp.target]
    /\ Len(bindings[lastOp.target]) = 2
    /\ log = <<>>

(***************************************************************************)
(* C8.  subscribe(fn) registers fn and invokes it exactly once, with the   *)
(* value the State held when subscribe was called, before returning; it    *)
(* assigns nothing to the State (the value can only change if fn itself    *)
(* writes).                                                                *)
(***************************************************************************)
C8_SubscribeReplaysOnce ==
    lastOp.op = "subscribe" =>
        /\ SetHas(bindings[lastOp.target], lastOp.fn)
        /\ Len(log) >= 1
        /\ log[1].fn = lastOp.fn
        /\ log[1].arg = lastOp.preValue[lastOp.target]
        /\ log[1].depth = 0
        /\ TopCount(lastOp.fn) = 1
        /\ Len(TopEntries) = 1
        /\ (\A i \in 1..Len(log) : log[i].fn.kind = "log") => value = lastOp.preValue

C8_Witness ==
    /\ lastOp.op = "subscribe"
    /\ lastOp.fn.kind = "log"
    /\ Len(bindings[lastOp.target]) = 2
    /\ lastOp.preValue[lastOp.target] # Num(0)
    /\ Len(log) = 1

(***************************************************************************)
(* C9.  When a write changes the value, the subscribers are invoked in the *)
(* order in which they were first passed to subscribe.                     *)
(***************************************************************************)
C9_NotifiedInRegistrationOrder ==
    WroteNewValue => TopFns = subscribed[lastOp.target]

C9_Witness ==
    /\ WroteNewValue
    /\ Len(subscribed[lastOp.target]) = 2
    /\ Len(TopEntries) = 2
    /\ Len(log) > 2

(***************************************************************************)
(* C3.  remove(item) after handleRemoval(item, cb) invokes cb exactly once *)
(* with item and consumes the registration, so that a later remove of the  *)
(* item (with no new handleRemoval) does not invoke cb; for any cb, also   *)
(* one that calls remove or handleRemoval on the list.                     *)
(***************************************************************************)
\* how often fn ran with arg during the call, at any depth
CountWith(fn, arg) ==
    Cardinality({i \in 1..Len(log) : log[i].fn = fn /\ log[i].arg = arg})

C3_RemovalCallbackFiresOnce ==
    (lastOp.op = "remove" /\ Len(lastOp.args) = 1) =>
        LET item == lastOp.args[1]
            cb == lastOp.preRemoval[UuidOf(item)]
        IN IF cb # NoCb
           THEN /\ CountWith(cb, item) = 1
                /\ removalHandlers[UuidOf(item)] = NoCb
           ELSE \A i \in 1..Len(log) : log[i].arg # item

\* the same statement for callbacks that do not remove: it holds of the code
C3_RemovalCallbackFiresOnceUnlessItRemoves ==
    (lastOp.op = "remove" /\ Len(lastOp.args) = 1
        /\ lastOp.preRemoval[UuidOf(lastOp.args[1])].kind # "remove") =>
            C3_RemovalCallbackFiresOnce

(***************************************************************************)
(* C4.  add(i1, ..., in) takes the items in turn: it inserts the item and  *)
(* then invokes every addition handler exactly once with it, in order; the *)
(* item is already a member when its handlers run, and every item is a     *)
(* member after add has returned.                                          *)
(***************************************************************************)
C4_AddFiresEveryHandlerOnce ==
    lastOp.op = "add" =>
        LET n == Len(additionHandlers)
        IN /\ ~thrown
           /\ additionHandlers = lastOp.preAddition
           /\ Len(log) = Len(lastOp.args) * n
           /\ \A k \in 1..Len(lastOp.args) : \A i \in 1..n :
                  log[(k - 1) * n + i] =
                      [fn |-> additionHandlers[i], arg |-> lastOp.args[k],
                       depth |-> 0, mem |-> TRUE]
           /\ \A k \in 1..Len(lastOp.args) : SetHas(items, lastOp.args[k])

C4_Witness ==
    /\ lastOp.op = "add"
    /\ Len(lastOp.args) = 2
    /\ lastOp.args[1] # lastOp.args[2]
    /\ lastOp.preItems = <<>>
    /\ Len(additionHandlers) = 2
    /\ Len(log) = 4

(***************************************************************************)
(* C10.  remove(item) of an item that is not in the set raises no error:   *)
(* a removal handler registered for the item is invoked once with the item *)
(* and unregistered; with none registered the call changes nothing.        *)
(***************************************************************************)
C10_RemoveOfNonMember ==
    (lastOp.op = "remove" /\ Len(lastOp.args) = 1
        /\ ~SetHas(lastOp.preItems, lastOp.args[1])) =>
        LET item == lastOp.args[1]
            cb == lastOp.preRemoval[UuidOf(item)]
        IN /\ ~thrown
           /\ items = lastOp.preItems
           /\ additionHandlers = lastOp.preAddition
           /\ IF cb # NoCb
              THEN /\ CountWith(cb, item) = 1
                   /\ removalHandlers = [lastOp.preRemoval EXCEPT ![UuidOf(item)] = NoCb]
              ELSE /\ log = <<>>
                   /\ removalHandlers = lastOp.preRemoval

\* the same statement for handlers that do not remove: it holds of the code
C10_RemoveOfNonMemberUnlessItRemoves ==
    (lastOp.op = "remove" /\ Len(lastOp.args) = 1
        /\ lastOp.preRemoval[UuidOf(lastOp.args[1])].kind # "remove") =>
            C10_RemoveOfNonMember

(***************************************************************************)
(* C5.  With d = createProxyState([a, b], fn): a write to a source makes   *)
(* d.value equal fn() of the new source values; if that changes fn(), each *)
(* subscriber of d is invoked exactly once, with the new value; a write of *)
(* the current value, or of a value under which fn() is unchanged, invokes *)
(* no subscriber of d.  (The write is the only one of the cascade: no      *)
(* subscriber writes a cell itself.)                                       *)
(***************************************************************************)
IsSource(c) == \E k \in 1..Len(proxy.srcs) : proxy.srcs[k] = c

WroteSourceAlone ==
    /\ lastOp.op = "write"
    /\ proxy # NoProxy
    /\ Len(proxy.srcs) = 2
    /\ IsSource(lastOp.target)
    /\ \A i \in 1..Len(log) : log[i].fn.kind \in {"log", "proxy"}

\* the invocations made by the write of d inside the proxy's listener
ProxyEntries == SelectSeq(log, LAMBDA e : e.depth = 1)

C5_ProxyFollowsSourceWrite ==
    WroteSourceAlone =>
        /\ value["d"] = FnValue(proxy, value)
        /\ IF FnValue(proxy, lastOp.preValue) = FnValue(proxy, value)
           THEN ProxyEntries = <<>>
           ELSE /\ [i \in 1..Len(ProxyEntries) |-> ProxyEntries[i].fn] = bindings["d"]
                /\ \A i \in 1..Len(ProxyEntries) : ProxyEntries[i].arg = value["d"]

\* a source changed and fn() did not: the subscribers of d stay silent
C5_WitnessUnchanged ==
    /\ WroteSourceAlone
    /\ Len(bindings["d"]) = 2
    /\ lastOp.preValue[lastOp.target] # lastOp.arg
    /\ FnValue(proxy, lastOp.preValue) = FnValue(proxy, value)
    /\ ProxyEntries = <<>>

\* a source changed and so did fn(): the subscribers of d ran once each
C5_Witness ==
    /\ WroteSourceAlone
    /\ Len(bindings["d"]) = 2
    /\ Len(ProxyEntries) = 2

(***************************************************************************)
(* C6.  Once createProxyState has returned, and after every completed      *)
(* write to a source, the proxy's value is fn() of the sources' current    *)
(* values: no sequence of source writes leaves it stale.                   *)
(***************************************************************************)
C6_ProxyNeverStale ==
    proxy # NoProxy => value["d"] = FnValue(proxy, value)

C6_Witness ==
    /\ proxy # NoProxy
    /\ lastOp.op = "write"
    /\ Len(proxy.srcs) = 2
    /\ lastOp.target = proxy.srcs[2]
    /\ value["d"] # FnValue(proxy, lastOp.preValue)
    /\ value["d"] = FnValue(proxy, value)

\* no cascade of these specifications comes near the engine's stack limit
NoOverflow == ~thrown

(***************************************************************************)
(* C7.  After bindElementValue(element, state): a write of x to the state  *)
(* leaves element.value = x; an input event delivered after the element's  *)
(* value became y leaves state.value = y; and either cascade ends: the     *)
(* element's update raises no further event, every subscriber is notified  *)
(* at most once, and a write-back of a value the state already holds       *)
(* notifies nobody.                                                        *)
(***************************************************************************)
IsBound(el) ==
    \E i \in 1..Len(bindings["a"]) :
        bindings["a"][i].kind = "bind" /\ bindings["a"][i].target = el

C7_BindingRoundTrip ==
    /\ lastOp.op = "write" =>
          /\ ~thrown
          /\ value["a"] = lastOp.arg
          /\ \A el \in Elements : IsBound(el) => elementValue[el] = lastOp.arg
          /\ \A i \in 1..Len(log) : log[i].depth = 0
          /\ \A i \in 1..Len(bindings["a"]) : Count(bindings["a"][i]) <= 1
    /\ (lastOp.op = "input" /\ IsBound(lastOp.target)) =>
          /\ ~thrown
          /\ value["a"] = lastOp.arg
          /\ \A el \in Elements : IsBound(el) => elementValue[el] = lastOp.arg
          /\ \A i \in 1..Len(log) : log[i].depth <= 1
          /\ \A i \in 1..Len(bindings["a"]) : Count(bindings["a"][i]) <= 1
          /\ lastOp.arg = lastOp.preValue["a"] =>
                 \A i \in 1..Len(log) : log[i].depth = 0

\* an input event on an element bound twice, beside a second bound element:
\* the first listener changes the state, the second finds it equal
C7_Witness ==
    /\ lastOp.op = "input"
    /\ Len(listeners[lastOp.target]) = 2
    /\ \A el \in Elements : IsBound(el)
    /\ lastOp.arg # lastOp.preValue["a"]
    /\ lastOp.preElement[lastOp.target] = lastOp.preValue["a"]
    /\ value["a"] = lastOp.arg
    /\ Len(log) >= 5

(***************************************************************************)
(* C11.  After handleRemoval(item, cb1) and then handleRemoval(item, cb2), *)
(* remove(item) invokes cb2 exactly once and never cb1.  (That at most one *)
(* handler is registered per identifier is how removalHandlers is held: a  *)
(* Map from UUID to one function.)                                         *)
(***************************************************************************)
C11_LastRegistrationWins ==
    (lastOp.op = "remove" /\ Len(lastOp.args) = 1) =>
        LET item == lastOp.args[1]
            cb2 == lastOp.preRemoval[UuidOf(item)]
            cb1 == overwritten[UuidOf(item)]
        IN (cb2 # NoCb /\ cb1 # NoCb) =>
               /\ CountWith(cb2, item) = 1
               /\ CountWith(cb1, item) = 0

\* the same statement for a cb2 that does not remove: it holds of the code
C11_LastRegistrationWinsUnlessItRemoves ==
    (lastOp.op = "remove" /\ Len(lastOp.args) = 1
        /\ lastOp.preRemoval[UuidOf(lastOp.args[1])].kind # "remove") =>
            C11_LastRegistrationWins

\* a replaced handler is passed over by a remove that fires its successor
C11_Overwrite ==
    /\ lastOp.op = "remove"
    /\ Len(lastOp.args) = 1
    /\ lastOp.preRemoval[UuidOf(lastOp.args[1])] = LogCb(3)
    /\ overwritten[UuidOf(lastOp.args[1])] = LogCb(1)
    /\ Len(log) = 1

(***************************************************************************)
(* C17.  Every UUID constructed carries a value (and toString() result)    *)
(* distinct from that of every other UUID constructed.                     *)
(***************************************************************************)
C17_UuidValuesDistinct ==
    \A u1, u2 \in Uuids :
        (u1 # u2 /\ uuidValue[u1] # Undefined /\ uuidValue[u2] # Undefined) =>
            /\ uuidValue[u1] # uuidValue[u2]
            /\ UuidToString(uuidValue[u1]) # UuidToString(uuidValue[u2])

(***************************************************************************)
(* C18.  add(item) of an item that is already a member leaves the set as   *)
(* it is and still invokes every addition handler exactly once with the    *)
(* item; add(x, x) inserts x once and invokes every handler twice.         *)
(***************************************************************************)
C18_AddOfMemberStillNotifies ==
    /\ (lastOp.op = "add" /\ Len(lastOp.args) = 1
           /\ SetHas(lastOp.preItems, lastOp.args[1])) =>
          /\ items = lastOp.preItems
          /\ Len(log) = Len(additionHandlers)
          /\ \A i \in 1..Len(additionHandlers) :
                 CountWith(additionHandlers[i], lastOp.args[1]) = 1
    /\ (lastOp.op = "add" /\ Len(lastOp.args) = 2
           /\ lastOp.args[1] = lastOp.args[2]) =>
          /\ items = SetAdd(lastOp.preItems, lastOp.args[1])
          /\ \A i \in 1..Len(additionHandlers) :
                 CountWith(additionHandlers[i], lastOp.args[1]) = 2

C18_Witness ==
    /\ lastOp.op = "add"
    /\ Len(lastOp.args) = 1
    /\ SetHas(lastOp.preItems, lastOp.args[1])
    /\ Len(lastOp.preItems) = 2
    /\ Len(additionHandlers) = 2
    /\ Len(log) = 2

(***************************************************************************)
(* C19.  Whenever remove(item) returns normally, no removal handler is     *)
(* registered for the item's identifier, also when the handler it fired    *)
(* called handleRemoval for the same item: that registration is deleted    *)
(* and the handler it named (here LogCb(5)) is never invoked.              *)
(***************************************************************************)
C19_NoHandlerAfterRemove ==
    /\ (lastOp.op = "remove" /\ ~thrown) =>
          \A k \in 1..Len(lastOp.args) :
              removalHandlers[UuidOf(lastOp.args[k])] = NoCb
    /\ Count(LogCb(5)) = 0
    /\ \A u \in Uuids : removalHandlers[u] # LogCb(5)

C19_Witness ==
    /\ lastOp.op = "remove"
    /\ ~thrown
    /\ lastOp.preRemoval[UuidOf(lastOp.args[1])] = HandleRemovalCb(5)
    /\ CountWith(HandleRemovalCb(5), lastOp.args[1]) = 1
    /\ removalHandlers[UuidOf(lastOp.args[1])] = NoCb

(***************************************************************************)
(* C20.  From the return of bindElementValue(element, state) on, after     *)
(* every completed write to the state and every delivered input event,     *)
(* element.value equals state.value.                                       *)
(***************************************************************************)
C20_ElementEqualsState ==
    \A el \in Elements : IsBound(el) => elementValue[el] = value["a"]

\* the binding itself makes them equal: the element was empty, the state not
C20_Witness ==
    /\ lastOp.op = "bindElementValue"
    /\ lastOp.preValue["a"] # EmptyString
    /\ lastOp.preElement[lastOp.target] # lastOp.preValue["a"]
    /\ Len(listeners[lastOp.target]) = 1
    /\ elementValue[lastOp.target] = value["a"]

(***************************************************************************)
(* C14.  If a subscriber throws during a notification, the subscribers     *)
(* after it are not invoked in that pass, the exception propagates out of  *)
(* the write, and the State keeps the new value.                           *)
(***************************************************************************)
\* the position of the first subscriber of c that throws, 0 if there is none
FirstThrower(c) ==
    LET at == {i \in 1..Len(bindings[c]) : bindings[c][i].kind = "throw"}
    IN IF at = {} THEN 0 ELSE CHOOSE i \in at : \A j \in at : i <= j

C14_ThrowStopsThePass ==
    (lastOp.op = "write" /\ ~LooseEq(lastOp.preValue[lastOp.target], lastOp.arg)) =>
        LET c == lastOp.target
            t == FirstThrower(c)
        IN /\ value[c] = lastOp.arg
           /\ thrown <=> t > 0
           /\ t > 0 => /\ TopFns = SubSeq(bindings[c], 1, t)
                       /\ \A i \in (t + 1)..Len(bindings[c]) :
                              Count(bindings[c][i]) = 0

\* a write notifies the thrower and not the logger subscribed after it
C14_Witness ==
    /\ lastOp.op = "write"
    /\ thrown
    /\ Len(bindings[lastOp.target]) = 2
    /\ FirstThrower(lastOp.target) = 1
    /\ bindings[lastOp.target][2].kind = "log"
    /\ Len(log) = 1
    /\ value[lastOp.target] = lastOp.arg
    /\ value[lastOp.target] # lastOp.preValue[lastOp.target]

(***************************************************************************)
(* C15.  createProxyState(sources, fn) evaluates fn exactly once, to seed  *)
(* the value, for every non-empty list of sources; fn is evaluated again   *)
(* only in response to later source writes, once per value-changing write. *)
(***************************************************************************)
\* a write to a cell whose notification reached only loggers and the proxy
WroteAlone ==
    /\ lastOp.op = "write"
    /\ proxy # NoProxy
    /\ \A i \in 1..Len(log) : log[i].fn.kind \in {"log", "proxy"}

C15_AfterConstruction ==
    /\ (WroteAlone /\ IsSource(lastOp.target)) =>
           evals = IF LooseEq(lastOp.preValue[lastOp.target], lastOp.arg) THEN 0 ELSE 1
    /\ (WroteAlone /\ ~IsSource(lastOp.target)) => evals = 0
    /\ lastOp.op # "createProxyState" =>
           evals = Cardinality({i \in 1..Len(log) : log[i].fn.kind = "proxy"})

C15_SeedIsOnlyEvaluation ==
    /\ lastOp.op = "createProxyState" => evals = 1
    /\ C15_AfterConstruction

\* as the code has it: the seed, and one more evaluation for each source, whose
\* subscribe replays the proxy's listener at once
C15_SeedAndOnePerSource ==
    /\ lastOp.op = "createProxyState" =>
           /\ evals = 1 + Len(lastOp.args)
           /\ Len(log) = Len(lastOp.args)
           /\ \A i \in 1..Len(log) : log[i].fn = ProxyCb(lastOp.args[i], i)
    /\ C15_AfterConstruction

C15_Witness ==
    /\ lastOp.op = "createProxyState"
    /\ Len(lastOp.args) = 2
    /\ evals = 3

\* later, a value-changing write to a source evaluates fn once
C15_WitnessWrite ==
    /\ WroteAlone
    /\ IsSource(lastOp.target)
    /\ lastOp.preValue[lastOp.target] # lastOp.arg
    /\ evals = 1

(***************************************************************************)
(* C12.  add and remove never invoke the subscribers registered with       *)
(* subscribe on the ListState: they fire addition handlers and removal     *)
(* handlers only, and the Set object held as the value stays the same      *)
(* object.                                                                 *)
(***************************************************************************)
C12_AddRemoveBypassSubscribers ==
    lastOp.op \in {"add", "remove"} =>
        /\ value["l"] = lastOp.preValue["l"]
        /\ \A i \in 1..Len(log) :
               /\ ~SetHas(bindings["l"], log[i].fn)
               /\ IF lastOp.op = "add"
                  THEN SetHas(additionHandlers, log[i].fn)
                  ELSE log[i].fn = lastOp.preRemoval[UuidOf(log[i].arg)]

\* an add that changed the Set and fired a handler, with two subscribers on l
C12_Witness ==
    /\ lastOp.op = "add"
    /\ Len(bindings["l"]) = 2
    /\ items # lastOp.preItems
    /\ Len(log) >= 1
    /\ value["l"] = SetObj(1)

\* a remove that changed the Set and fired a handler, with two subscribers on l
C12_WitnessRemove ==
    /\ lastOp.op = "remove"
    /\ Len(bindings["l"]) = 2
    /\ items # lastOp.preItems
    /\ Len(log) >= 1

(***************************************************************************)
(* C16.  Subscriptions are permanent: over every sequence of subscribe,    *)
(* write, add, remove, handleAddition and handleRemoval the subscribers of *)
(* a State never lose a member, so every function ever subscribed is       *)
(* invoked on each later value-changing write; and the addition handlers   *)
(* of a ListState never shrink.                                            *)
(***************************************************************************)
IsPrefix(s, t) == Len(s) <= Len(t) /\ SubSeq(t, 1, Len(s)) = s

C16_SubscriptionsPermanent ==
    /\ \A c \in Cells : bindings[c] = subscribed[c]
    /\ IsPrefix(lastOp.preAddition, additionHandlers)
    /\ (lastOp.op = "write" /\ ~thrown
           /\ ~LooseEq(lastOp.preValue[lastOp.target], lastOp.arg)) =>
          \A i \in 1..Len(subscribed[lastOp.target]) :
              CountWith(subscribed[lastOp.target][i], lastOp.arg) = 1

\* a new Set is assigned after list operations: both subscribers are invoked
C16_Witness ==
    /\ lastOp.op = "write"
    /\ value["l"] # lastOp.preValue["l"]
    /\ lastOp.preItems # <<>>
    /\ Len(subscribed["l"]) = 2
    /\ Len(additionHandlers) = 2
    /\ Len(log) = 2

(***************************************************************************)
(* C13.  An element wired with subscribe:children to a list that holds     *)
(* [A, B] has the children of A and B in that order; a later add(C)        *)
(* appends exactly one child, that of C, without rendering A or B again; a *)
(* later remove(B) detaches exactly the child of B and leaves [A, C].      *)
(***************************************************************************)
\* the items whose children the element shows, in order
Shown == [i \in 1..Len(children) |-> children[i][2]]

C13_ChildrenFollowTheList ==
    /\ Wired => Shown = items
    /\ lastOp.op = "subscribe:children" =>
           /\ Shown = lastOp.preItems
           /\ \A i \in ChildItems :
                  rendered[i] = IF SetHas(items, i) THEN 1 ELSE 0
    /\ (Wired /\ lastOp.op = "add") =>
           /\ children = Append(lastOp.preChildren,
                                Child(lastOp.args[1], rendered[lastOp.args[1]]))
           /\ rendered = [lastOp.preRendered EXCEPT ![lastOp.args[1]] = @ + 1]
    /\ (Wired /\ lastOp.op = "remove") =>
           /\ children = SelectSeq(lastOp.preChildren,
                                   LAMBDA ch : ch[2] # lastOp.args[1])
           /\ Len(children) >= Len(lastOp.preChildren) - 1
           /\ rendered = lastOp.preRendered

\* A and B wired, C added, B removed: the children are those of A and C, each
\* rendered once
C13_Witness ==
    /\ lastOp.op = "remove"
    /\ lastOp.args = <<Item(2)>>
    /\ lastOp.preChildren = <<Child(Item(1), 1), Child(Item(2), 1), Child(Item(3), 1)>>
    /\ children = <<Child(Item(1), 1), Child(Item(3), 1)>>
    /\ rendered = [i \in ChildItems |-> 1]

====
